---- MODULE Spec2Model ----
(***************************************************************************)
(* A model of highlights_parser.py: the parsing of one Kindle clipping     *)
(* (Highlight.parse_single_highlight), the grouping of the clippings by    *)
(* book (Parser.parse_highlights), the formatting of one highlight         *)
(* (Formatting.format_highlight) and the writing of one Markdown file per  *)
(* book (Parser.write_highlights).                                         *)
(*                                                                         *)
(* A Python str is a sequence of one-character strings.                    *)
(***************************************************************************)
EXTENDS Integers, Sequences, FiniteSets, TLC

\* The input file holds at most MaxChunks clippings drawn from ChunkPool, or
\* at most MaxSeries clippings drawn from SeriesPool.
MaxChunks == 2

MaxSeries == 3

----------------------------------------------------------------------------
(* Python's str operations, as the program uses them.                      *)

Min(a, b) == IF a < b THEN a ELSE b

Max(a, b) == IF a > b THEN a ELSE b

\* s[a:b], with a negative index counted from the end and both clamped.
PySlice(s, a, b) ==
  LET n  == Len(s)
      lo == IF a < 0 THEN Max(n + a, 0) ELSE Min(a, n)
      hi == IF b < 0 THEN Max(n + b, 0) ELSE Min(b, n)
  IN  SubSeq(s, lo + 1, hi)

\* s.find(sub): the 0-based index of the first occurrence, or -1.
Find(s, sub) ==
  LET cand == {k \in 0..(Len(s) - Len(sub)) :
                 SubSeq(s, k + 1, k + Len(sub)) = sub}
  IN  IF cand = {} THEN -1
      ELSE CHOOSE k \in cand : \A m \in cand : k <= m

\* s.split(sep): the pieces between the occurrences of sep, left to right.
RECURSIVE Split(_, _)
Split(s, sep) ==
  LET k == Find(s, sep)
  IN  IF k = -1 THEN <<s>>
      ELSE <<SubSeq(s, 1, k)>>
             \o Split(SubSeq(s, k + Len(sep) + 1, Len(s)), sep)

\* The characters str.strip() and str.rstrip() remove.
Whitespace == {" ", "\t", "\n", "\r"}

\* s.rstrip()
RECURSIVE RStrip(_)
RStrip(s) ==
  IF s # <<>> /\ s[Len(s)] \in Whitespace
  THEN RStrip(SubSeq(s, 1, Len(s) - 1))
  ELSE s

\* s.lstrip()
RECURSIVE LStrip(_)
LStrip(s) ==
  IF s # <<>> /\ s[1] \in Whitespace THEN LStrip(Tail(s)) ELSE s

\* s.strip()
Strip(s) == LStrip(RStrip(s))

\* s.replace(old, new) for single characters old and new.
Replace(s, old, new) ==
  [k \in 1..Len(s) |-> IF s[k] = old THEN new ELSE s[k]]

\* list(filter(None, lines)): the lines that are not the empty string.
FilterNone(lines) == SelectSeq(lines, LAMBDA l : l # <<>>)

\* c.isalpha()
IsAlpha(c) ==
  c \in {"a","b","c","d","e","f","g","h","i","j","k","l","m","n","o","p",
         "q","r","s","t","u","v","w","x","y","z","A","B","C","D","E","F",
         "G","H","I","J","K","L","M","N","O","P","Q","R","S","T","U","V",
         "W","X","Y","Z"}

\* c.isdigit()
IsDigit(c) == c \in {"0","1","2","3","4","5","6","7","8","9"}

----------------------------------------------------------------------------
(* Module-level constants.                                                 *)

HIGHLIGHT_SEPARATOR == <<"=","=","=","=","=","=","=","=","=","=">>

SAVE_PATH == <<"b","o","o","k","s","/">>

----------------------------------------------------------------------------
(* class Highlight                                                         *)

\* re.search(r"\((.*?)\)", line): the leftmost "(" that has a ")" after it,
\* up to the first ")" after it.  start is match.start(), group is
\* match.group(1).
ReSearch(line) ==
  LET opens == {k \in 1..Len(line) :
                  /\ line[k] = "("
                  /\ \E j \in (k + 1)..Len(line) : line[j] = ")"}
  IN  IF opens = {} THEN [matched |-> FALSE, start |-> 0, group |-> <<>>]
      ELSE LET o == CHOOSE k \in opens : \A m \in opens : k <= m
               c == CHOOSE j \in (o + 1)..Len(line) :
                      /\ line[j] = ")"
                      /\ \A m \in (o + 1)..(j - 1) : line[m] # ")"
           IN  [matched |-> TRUE, start |-> o - 1,
                group |-> SubSeq(line, o + 1, c - 1)]

\* The tuple parse_single_highlight returns when the format is not met.
EmptyTuple == << <<>>, <<>>, <<>>, <<>>, <<>> >>

\* date = details[-1][10:]
ParseDate(details) ==
  PySlice(details[Len(details)], 10, Len(details[Len(details)]))

\* The slice keeps the segment's last character.
ParsePageKeepLast(details) ==
  LET page_idx == Find(Strip(details[1]), <<"p","a","g","e">>)
  IN  <<"P">> \o PySlice(details[1], page_idx + 1, Len(details[1]))

\* page_idx = details[0].strip().find("page")
\* page = "P" + details[0][page_idx + 1 : -1]
ParsePage(details) ==
  LET page_idx == Find(Strip(details[1]), <<"p","a","g","e">>)
  IN  <<"P">> \o PySlice(details[1], page_idx + 1, -1)

\* Highlight.parse_single_highlight: the tuple
\* (title, author, content, page, date).
parse_single_highlight(highlight_string) ==
  LET split_string == FilterNone(Split(highlight_string, <<"\n">>))
  IN  IF Len(split_string) # 3 THEN EmptyTuple
      ELSE
        LET author_line == split_string[1]
            content     == split_string[3]
            details     == Split(split_string[2], <<"|">>)
            match       == ReSearch(author_line)
        IN  IF ~match.matched THEN EmptyTuple
            ELSE
              LET author == match.group
                  title  == PySlice(author_line, 0, match.start)
                  date   == ParseDate(details)
                  page   == ParsePage(details)
              IN  <<title, author, content, page, date>>

\* Highlight.__init__: the tuple is unpacked, in order, into
\* title, author, content, date, page.
Highlight(raw_string) ==
  LET t == parse_single_highlight(raw_string)
  IN  [title |-> t[1], author |-> t[2], content |-> t[3],
       date |-> t[4], page |-> t[5]]

----------------------------------------------------------------------------
(* class Formatting                                                        *)

Formatting == {"bullet", "quote", "paragraph"}

\* The markers the names suggest: a list item for bullet, a block quote for
\* quote.
PrefixByName(self) ==
  CASE self = "quote"     -> <<">", " ">>
    [] self = "bullet"    -> <<"-", " ">>
    [] self = "paragraph" -> <<>>

\* format_highlight: what the match statement puts before the text.
Prefix(self) ==
  CASE self = "quote"     -> <<"-", " ">>
    [] self = "bullet"    -> <<">", " ">>
    [] self = "paragraph" -> <<>>

\* Formatting.format_highlight
format_highlight(self, highlight, add_date, add_page) ==
  LET text     == Replace(highlight.content, "\n", " ")
      prefixed == Prefix(self) \o text
      AddedOn  == <<" ", "(", "A", "d", "d", "e", "d", " ", "o", "n", " ">>
      suffixed ==
        IF add_date /\ add_page
        THEN prefixed \o AddedOn \o highlight.date \o <<",", " ">>
               \o highlight.page \o <<")">>
        ELSE IF add_date /\ ~add_page
        THEN prefixed \o AddedOn \o highlight.date \o <<")">>
        ELSE IF ~add_date /\ add_page
        THEN prefixed \o <<" ", "(">> \o highlight.page \o <<")">>
        ELSE prefixed
  IN  suffixed \o <<"\n">>

----------------------------------------------------------------------------
(* The input file: clippings joined by the separator.                      *)

\* the concrete scenario of the format
ChunkSample ==
  <<"S","a","m","p","l","e"," ","B","o","o","k"," ","(","J","a","n","e"," ",
    "D","o","e",")","\n","-"," ","Y","o","u","r"," ","H","i","g","h","l",
    "i","g","h","t"," ","o","n"," ","p","a","g","e"," ","1","2"," ","|"," ",
    "A","d","d","e","d"," ","o","n"," ","M","o","n","d","a","y",","," ","M",
    "a","y"," ","1",","," ","2","0","2","3"," ","1","0",":","0","0",":","0",
    "0"," ","A","M","\n","T","h","i","s"," ","i","s"," ","t","h","e"," ",
    "h","i","g","h","l","i","g","h","t","e","d"," ","t","e","x","t",".","\n">>

\* a well-formed entry of book T by A
ChunkFirst ==
  <<"\n","T"," ","(","A",")","\n","p","a","g","e"," ","7"," ","|"," ","A",
    "d","d","e","d"," ","o","n"," ","D","1","\n","\n","x","\n">>

\* a second entry of the same book
ChunkSecond ==
  <<"\n","T"," ","(","A",")","\n"," ","p","a","g","e"," ","8"," ","|"," ",
    "A","d","d","e","d"," ","o","n"," ","D","2","\n","\n","y","\n">>

\* same title and author, two spaces before the parenthesis
ChunkWide ==
  <<"\n","T"," "," ","(","A",")","\n","p","a","g","e"," ","7"," ","|"," ",
    "A","d","d","e","d"," ","o","n"," ","D","1","\n","\n","z","\n">>

\* a title that itself holds a parenthesized group
ChunkTwoGroups ==
  <<"\n","T"," ","(","v",")"," ","(","A",")","\n","p","a","g","e"," ","7",
    " ","|"," ","A","d","d","e","d"," ","o","n"," ","D","1","\n","\n","x",
    "\n">>

\* a header that is only the author's parenthesis
ChunkNoTitle ==
  <<"\n","(","A",")","\n","p","a","g","e"," ","7"," ","|"," ","A","d","d",
    "e","d"," ","o","n"," ","D","1","\n","\n","u","n","t","i","t","l","e",
    "d","\n">>

\* a header with an empty parenthesis
ChunkNoAuthor ==
  <<"\n","T"," ","(",")","\n","p","a","g","e"," ","7"," ","|"," ","A","d",
    "d","e","d"," ","o","n"," ","D","1","\n","\n","a","n","o","n","y","m",
    "o","u","s","\n">>

\* a header without any parenthesized group
ChunkNoParen ==
  <<"\n","T"," ","A","\n","p","a","g","e"," ","7"," ","|"," ","A","d","d",
    "e","d"," ","o","n"," ","D","1","\n","\n","p","l","a","i","n","\n">>

\* header, a whitespace-only line, passage
ChunkBlankMeta ==
  <<"\n","W"," ","(","C",")","\n"," ","\t"," ","\n","n","o"," ","m","e","t",
    "a","d","a","t","a"," ","u","n","d","e","r"," ","t","h","i","s"," ","h",
    "e","a","d","e","r","\n">>

\* three lines plus a whitespace-only line
ChunkExtraBlank ==
  <<"\n","T"," ","(","A",")","\n","p","a","g","e"," ","7"," ","|"," ","A",
    "d","d","e","d"," ","o","n"," ","D","1","\n"," ","\n","e","x","t","r",
    "a","\n">>

\* the chunk after the last separator
ChunkEmpty ==
  <<"\n">>

\* a title with punctuation
ChunkPunct ==
  <<"\n","T","!"," ","(","A",")","\n","p","a","g","e"," ","7"," ","|"," ",
    "A","d","d","e","d"," ","o","n"," ","D","1","\n","\n","w","\n">>

\* another book, location-only metadata
ChunkOther ==
  <<"\n","U"," ","(","B",")","\n","L","o","c"," ","3"," ","|"," ","A","d",
    "d","e","d"," ","o","n"," ","D","1","\n","\n","w","\n">>

ChunkPool ==
  {ChunkSample, ChunkFirst, ChunkSecond, ChunkWide,
   ChunkTwoGroups, ChunkNoTitle, ChunkNoAuthor, ChunkNoParen,
   ChunkBlankMeta, ChunkExtraBlank, ChunkEmpty, ChunkPunct,
   ChunkOther}

\* The text of a file that holds the clippings cs, in order.
RECURSIVE JoinChunks(_)
JoinChunks(cs) ==
  IF cs = <<>> THEN <<>>
  ELSE IF Len(cs) = 1 THEN cs[1]
  ELSE cs[1] \o HIGHLIGHT_SEPARATOR \o JoinChunks(Tail(cs))

\* Clippings of two books, one of them under two spellings of its header,
\* and a clipping without an author.
SeriesPool == {ChunkFirst, ChunkSecond, ChunkWide, ChunkOther, ChunkNoParen}

\* The texts the input file may hold.
Inputs ==
  {JoinChunks(cs) :
     cs \in UNION ({[1..n -> ChunkPool] : n \in 0..MaxChunks}
                   \cup {[1..n -> SeriesPool] : n \in 0..MaxSeries})}

----------------------------------------------------------------------------
(* class Parser                                                            *)

VARIABLES
  data,            \* the text of the input file
  highlights,      \* parse_highlights: data.split(HIGHLIGHT_SEPARATOR)
  pos,             \* parse_highlights: the number of chunks consumed
  parsed,          \* Highlight.__init__: the tuple parse_single_highlight
                   \* returned last
  h,               \* parse_highlights: the Highlight built last
  books,           \* Parser.books, in insertion order
  formatting,      \* write_highlights: argument
  add_date,        \* write_highlights: argument
  add_page,        \* write_highlights: argument
  overwrite,       \* write_highlights: argument
  files,           \* the files under save_path: path |-> text
  bookIdx,         \* write_highlights: the number of books consumed
  lineIdx,         \* write_highlights: the number of highlights written
  formatted_text,  \* write_highlights: the line formatted last
  pc               \* the position in the main program

vars == <<data, highlights, pos, parsed, h, books, formatting, add_date, add_page,
          overwrite, files, bookIdx, lineIdx, formatted_text, pc>>

\* New highlights and new books go first.
BooksPrepend(bs, key, hl) ==
  IF \E k \in 1..Len(bs) : bs[k].key = key
  THEN LET k == CHOOSE k \in 1..Len(bs) : bs[k].key = key
       IN  [bs EXCEPT ![k].highlights = <<hl>> \o @]
  ELSE <<[key |-> key, highlights |-> <<hl>>]>> \o bs

\* self.books[key].append(hl) on a defaultdict(list): a new key goes last.
BooksAppend(bs, key, hl) ==
  IF \E k \in 1..Len(bs) : bs[k].key = key
  THEN LET k == CHOOSE k \in 1..Len(bs) : bs[k].key = key
       IN  [bs EXCEPT ![k].highlights = Append(@, hl)]
  ELSE Append(bs, [key |-> key, highlights |-> <<hl>>])

\* parse_highlights as a function: the books built from the chunks cs.
RECURSIVE parse_highlights(_)
parse_highlights(cs) ==
  IF cs = <<>> THEN <<>>
  ELSE LET prev == parse_highlights(SubSeq(cs, 1, Len(cs) - 1))
           hl   == Highlight(cs[Len(cs)])
       IN  IF hl.title # <<>> /\ hl.author # <<>>
           THEN BooksAppend(prev, <<hl.author, hl.title>>, hl)
           ELSE prev

\* "".join([c for c in name if c.isalpha() or c.isdigit() or c == " "])
\*   .rstrip()
Clean(name) ==
  RStrip(SelectSeq(name, LAMBDA c : IsAlpha(c) \/ IsDigit(c) \/ c = " "))

\* f"{save_path}{clean_author}_{clean_title}.md" for the book with this key
\* (author, title).
FilePath(key) ==
  SAVE_PATH \o Clean(key[1]) \o <<"_">> \o Clean(key[2])
    \o <<".", "m", "d">>

\* The four writes that open a book's file.
FileHeader(key) ==
  <<"#", " ">> \o Clean(key[2]) \o <<"\n">> \o <<"\n">>
    \o <<"A", "u", "t", "h", "o", "r", ":", " ">> \o Clean(key[1])
    \o <<"\n">> \o <<"\n">>

Init ==
  /\ data \in Inputs
  /\ highlights = <<>>
  /\ pos = 0
  /\ parsed = EmptyTuple
  /\ h = Highlight(<<>>)
  /\ books = <<>>
  /\ formatting = "bullet"
  /\ add_date = TRUE
  /\ add_page = TRUE
  /\ overwrite = FALSE
  /\ files = <<>>
  /\ bookIdx = 0
  /\ lineIdx = 0
  /\ formatted_text = <<>>
  /\ pc = "start"

\* parse_highlights: read the file and split it on the separator.
ReadFile ==
  /\ pc = "start"
  /\ highlights' = Split(data, HIGHLIGHT_SEPARATOR)
  /\ pc' = "parse"
  /\ UNCHANGED <<data, pos, parsed, h, books, formatting, add_date, add_page,
                 overwrite, files, bookIdx, lineIdx, formatted_text>>

\* parse_highlights: one iteration of the loop over the chunks.
ParseChunk ==
  /\ pc = "parse"
  /\ pos < Len(highlights)
  /\ LET hl == Highlight(highlights[pos + 1])
     IN  /\ parsed' = parse_single_highlight(highlights[pos + 1])
         /\ h' = hl
         /\ books' = IF hl.title # <<>> /\ hl.author # <<>>
                     THEN BooksAppend(books, <<hl.author, hl.title>>, hl)
                     ELSE books
  /\ pos' = pos + 1
  /\ UNCHANGED <<data, highlights, formatting, add_date, add_page,
                 overwrite, files, bookIdx, lineIdx, formatted_text, pc>>

\* The main program calls write_highlights with the command line's options.
CallWrite ==
  /\ pc = "parse"
  /\ pos = Len(highlights)
  /\ formatting' \in Formatting
  /\ add_date' \in BOOLEAN
  /\ add_page' \in BOOLEAN
  /\ overwrite' \in BOOLEAN
  /\ pc' = "books"
  /\ UNCHANGED <<data, highlights, pos, parsed, h, books, files, bookIdx, lineIdx,
                 formatted_text>>

\* write_highlights: the file of the next book exists and is kept.
SkipBook ==
  /\ pc = "books"
  /\ bookIdx < Len(books)
  /\ ~overwrite
  /\ FilePath(books[bookIdx + 1].key) \in DOMAIN files
  /\ bookIdx' = bookIdx + 1
  /\ UNCHANGED <<data, highlights, pos, parsed, h, books, formatting, add_date,
                 add_page, overwrite, files, lineIdx, formatted_text, pc>>

\* write_highlights: open the next book's file for writing, which empties
\* it, and write the title and the author.
OpenBook ==
  /\ pc = "books"
  /\ bookIdx < Len(books)
  /\ overwrite \/ FilePath(books[bookIdx + 1].key) \notin DOMAIN files
  /\ LET key  == books[bookIdx + 1].key
         path == FilePath(key)
     IN  files' = [p \in DOMAIN files \cup {path} |->
                     IF p = path THEN FileHeader(key) ELSE files[p]]
  /\ lineIdx' = 0
  /\ pc' = "lines"
  /\ UNCHANGED <<data, highlights, pos, parsed, h, books, formatting, add_date,
                 add_page, overwrite, bookIdx, formatted_text>>

\* write_highlights: format the book's next highlight and write it.
WriteHighlight ==
  /\ pc = "lines"
  /\ lineIdx < Len(books[bookIdx + 1].highlights)
  /\ LET path == FilePath(books[bookIdx + 1].key)
         text == format_highlight(formatting,
                   books[bookIdx + 1].highlights[lineIdx + 1],
                   add_date, add_page)
     IN  /\ formatted_text' = text
         /\ files' = [files EXCEPT ![path] = @ \o text]
  /\ lineIdx' = lineIdx + 1
  /\ UNCHANGED <<data, highlights, pos, parsed, h, books, formatting, add_date,
                 add_page, overwrite, bookIdx, pc>>

\* write_highlights: the book's file is closed.
CloseBook ==
  /\ pc = "lines"
  /\ lineIdx = Len(books[bookIdx + 1].highlights)
  /\ bookIdx' = bookIdx + 1
  /\ pc' = "books"
  /\ UNCHANGED <<data, highlights, pos, parsed, h, books, formatting, add_date,
                 add_page, overwrite, files, lineIdx, formatted_text>>

\* write_highlights returns.
Done ==
  /\ pc = "books"
  /\ bookIdx = Len(books)
  /\ pc' = "done"
  /\ UNCHANGED <<data, highlights, pos, parsed, h, books, formatting, add_date,
                 add_page, overwrite, files, bookIdx, lineIdx,
                 formatted_text>>

Next ==
  \/ ReadFile
  \/ ParseChunk
  \/ CallWrite
  \/ SkipBook
  \/ OpenBook
  \/ WriteHighlight
  \/ CloseBook
  \/ Done

Spec == Init /\ [][Next]_vars

----------------------------------------------------------------------------
(* The vocabulary of the properties.                                       *)

\* The chunk the record h was built from.
Chunk == highlights[pos]

\* A record has been built from a chunk.
Built == pc = "parse" /\ pos > 0

\* The lines of a chunk that are not empty after trimming.
TrimmedLines(chunk) ==
  SelectSeq(Split(chunk, <<"\n">>), LAMBDA l : Strip(l) # <<>>)

\* The lines of a chunk that are not empty.
NonEmptyLines(chunk) ==
  SelectSeq(Split(chunk, <<"\n">>), LAMBDA l : l # <<>>)

\* The parenthesized groups of a line: an opening and a closing parenthesis
\* with no parenthesis between them.
Groups(line) ==
  {g \in (1..Len(line)) \X (1..Len(line)) :
     /\ g[1] < g[2]
     /\ line[g[1]] = "("
     /\ line[g[2]] = ")"
     /\ \A m \in (g[1] + 1)..(g[2] - 1) : line[m] \notin {"(", ")"}}

\* The rightmost group of a line that has one.
LastGroup(line) ==
  CHOOSE g \in Groups(line) : \A g2 \in Groups(line) : g2[1] <= g[1]

\* The segments of the metadata line of a chunk of three lines.
Segments(lines) == Split(lines[2], <<"|">>)

\* A sequence of characters holds the word "page".
HasPage(s) ==
  \E k \in 1..(Len(s) - 3) : SubSeq(s, k, k + 3) = <<"p","a","g","e">>

\* s without its first n characters.
Drop(s, n) == SubSeq(s, n + 1, Len(s))

\* The record is the invalid record: every field is the empty string.
AllEmpty(r) ==
  /\ r.title = <<>>
  /\ r.author = <<>>
  /\ r.content = <<>>
  /\ r.date = <<>>
  /\ r.page = <<>>

----------------------------------------------------------------------------
\* C1: for a chunk of three lines whose header holds more than one
\* parenthesized group, the author is the text inside the last group and the
\* title is everything before that group's opening parenthesis.
C1_LastGroupIsAuthor ==
  (Built /\ Len(TrimmedLines(Chunk)) = 3
     /\ Cardinality(Groups(TrimmedLines(Chunk)[1])) > 1)
  => LET header == TrimmedLines(Chunk)[1]
         g      == LastGroup(header)
     IN  /\ h.author = SubSeq(header, g[1] + 1, g[2] - 1)
         /\ h.title = SubSeq(header, 1, g[1] - 1)

----------------------------------------------------------------------------
\* The metadata line of the concrete scenario gives this location ...
SampleLocation == <<"P","a","g","e"," ","1","2">>

\* ... and this timestamp.
SampleTimestamp ==
  <<"M","o","n","d","a","y",","," ","M","a","y"," ","1",","," ","2","0",
    "2","3"," ","1","0",":","0","0",":","0","0"," ","A","M">>

\* C2, as stated: for a chunk of three lines whose first metadata segment
\* holds "page", the location is "P" and the characters of the segment from
\* just after "page" up to, not including, its last one; the timestamp is
\* the last segment without its first 10 characters; the concrete scenario
\* gives "P12".
C2_LocationAfterPage ==
  (Built /\ Len(TrimmedLines(Chunk)) = 3
     /\ HasPage(Segments(TrimmedLines(Chunk))[1]))
  => LET segs == Segments(TrimmedLines(Chunk))
         seg  == segs[1]
         k    == CHOOSE k \in 1..(Len(seg) - 3) :
                   /\ SubSeq(seg, k, k + 3) = <<"p","a","g","e">>
                   /\ \A m \in 1..(k - 1) :
                        SubSeq(seg, m, m + 3) # <<"p","a","g","e">>
     IN  /\ parsed[4] = <<"P">> \o SubSeq(seg, k + 4, Len(seg) - 1)
         /\ parsed[5] = Drop(segs[Len(segs)], 10)
         /\ Chunk = ChunkSample => parsed[4] = <<"P","1","2">>

\* C2, amended: for a chunk of three non-empty lines whose header holds a
\* parenthesized group and whose first metadata segment holds "page", the
\* location is "P" + segment[k + 1 : -1], where k is the index of the first
\* "page" in the segment stripped of its surrounding whitespace; the
\* timestamp is the last segment without its first 10 characters; the concrete scenario gives "Page 12" and
\* "Monday, May 1, 2023 10:00:00 AM".
C2_LocationFromPage ==
  (Built /\ Len(NonEmptyLines(Chunk)) = 3
     /\ Groups(NonEmptyLines(Chunk)[1]) # {}
     /\ HasPage(Segments(NonEmptyLines(Chunk))[1]))
  => LET segs == Segments(NonEmptyLines(Chunk))
         seg  == segs[1]
         lead == Len(seg) - Len(LStrip(seg))
         k    == CHOOSE k \in 1..(Len(seg) - 3) :
                   /\ SubSeq(seg, k, k + 3) = <<"p","a","g","e">>
                   /\ \A m \in 1..(k - 1) :
                        SubSeq(seg, m, m + 3) # <<"p","a","g","e">>
     IN  /\ parsed[4] = <<"P">> \o SubSeq(seg, k - lead + 1, Len(seg) - 1)
         /\ parsed[5] = Drop(segs[Len(segs)], 10)
         /\ Chunk = ChunkSample
              => /\ parsed[4] = SampleLocation
                 /\ parsed[5] = SampleTimestamp

\* The concrete scenario has been parsed.
C2_Witness ==
  /\ Built
  /\ Chunk = ChunkSample
  /\ parsed[4] = SampleLocation

----------------------------------------------------------------------------
\* A line has been formatted.
Formatted == pc = "lines" /\ lineIdx > 0

\* The record the line formatted_text was formatted from.
Record == books[bookIdx + 1].highlights[lineIdx]

\* The chunks the record r was built from.
ChunksOf(r) ==
  {k \in 1..Len(highlights) : Highlight(highlights[k]) = r}

\* The suffix the flags ask for, given the date and the location.
Suffix(with_date, with_page, date, location) ==
  LET AddedOn == <<" ", "(", "A", "d", "d", "e", "d", " ", "o", "n", " ">>
  IN  CASE with_date /\ with_page ->
             AddedOn \o date \o <<",", " ">> \o location \o <<")">>
        [] with_date /\ ~with_page -> AddedOn \o date \o <<")">>
        [] ~with_date /\ with_page -> <<" ", "(">> \o location \o <<")">>
        [] ~with_date /\ ~with_page -> <<>>

\* s ends with t.
EndsWith(s, t) ==
  /\ Len(t) <= Len(s)
  /\ SubSeq(s, Len(s) - Len(t) + 1, Len(s)) = t

\* C3: the formatted line is the prefixed passage, then the suffix the flags
\* ask for, built from the timestamp and the location that parse extracted
\* from the record's metadata line, then the line terminator.
C3_SuffixByFlags ==
  Formatted
  => \A k \in ChunksOf(Record) :
       LET t      == parse_single_highlight(highlights[k])
           suffix == Suffix(add_date, add_page, t[5], t[4])
       IN  /\ EndsWith(formatted_text, suffix \o <<"\n">>)
           /\ Len(formatted_text)
                = Len(Prefix(formatting)) + Len(Record.content)
                    + Len(suffix) + 1

----------------------------------------------------------------------------
\* The text of a chunk that holds these lines.
RECURSIVE JoinLines(_)
JoinLines(lines) ==
  IF lines = <<>> THEN <<>>
  ELSE IF Len(lines) = 1 THEN lines[1]
  ELSE lines[1] \o <<"\n">> \o JoinLines(Tail(lines))

\* C4: parse counts the lines that are not empty after trimming; a chunk
\* with another count than 3 gives the invalid record, and a chunk with 3
\* such lines and any number of whitespace-only lines is parsed as the chunk
\* of those three lines.
C4_CountsTrimmedLines ==
  Built
  => /\ Len(TrimmedLines(Chunk)) # 3 => AllEmpty(h)
     /\ Len(TrimmedLines(Chunk)) = 3
          => h = Highlight(JoinLines(TrimmedLines(Chunk)))

----------------------------------------------------------------------------
\* C5: a record is fully populated, with a title and an author, or fully
\* empty.
C5_NoPartialRecord ==
  Built => \/ h.title # <<>> /\ h.author # <<>>
           \/ AllEmpty(h)

----------------------------------------------------------------------------
\* A record is valid: it has a title and an author.
Valid(r) == r.title # <<>> /\ r.author # <<>>

\* The BookKey of a record.
KeyOf(r) == <<r.author, r.title>>

\* The valid records of the first n chunks, in the order of the chunks.
RECURSIVE ValidEntries(_)
ValidEntries(n) ==
  IF n = 0 THEN <<>>
  ELSE LET r == Highlight(highlights[n])
       IN  IF Valid(r) THEN Append(ValidEntries(n - 1), r)
           ELSE ValidEntries(n - 1)

\* The elements of a sequence.
Range(s) == {s[k] : k \in 1..Len(s)}

\* Two records are stored under one BookKey.
SameBook(r1, r2) ==
  \E b \in 1..Len(books) :
    r1 \in Range(books[b].highlights) /\ r2 \in Range(books[b].highlights)

\* C6: two valid entries are stored under the same BookKey if and only if
\* their authors and their titles are equal after trimming.
C6_SameBookIffTrimmedEqual ==
  pc # "start"
  => \A r1, r2 \in Range(ValidEntries(pos)) :
       SameBook(r1, r2) <=> /\ Strip(r1.author) = Strip(r2.author)
                            /\ Strip(r1.title) = Strip(r2.title)

----------------------------------------------------------------------------
\* The position of the first record of a sequence that has the key.
FirstSeen(entries, key) ==
  CHOOSE k \in 1..Len(entries) :
    /\ KeyOf(entries[k]) = key
    /\ \A m \in 1..(k - 1) : KeyOf(entries[m]) # key

\* C7: the keys of the Library are in first-seen order, each book lists its
\* valid entries in the order of their chunks, and every valid entry is
\* stored exactly once, under its own key.
C7_OrderPreserved ==
  pc # "start"
  => LET entries == ValidEntries(pos)
     IN  /\ \A b, c \in 1..Len(books) :
              b # c => books[b].key # books[c].key
         /\ \A k \in 1..Len(entries) :
              \E b \in 1..Len(books) : books[b].key = KeyOf(entries[k])
         /\ \A b \in 1..Len(books) :
              /\ books[b].highlights
                   = SelectSeq(entries,
                               LAMBDA r : KeyOf(r) = books[b].key)
              /\ books[b].highlights # <<>>
         /\ \A b, c \in 1..Len(books) :
              b < c => FirstSeen(entries, books[b].key)
                         < FirstSeen(entries, books[c].key)

\* Two books have been aggregated from three chunks, the second book's entry
\* between the two entries of the first.
C7_Witness ==
  /\ pc = "parse"
  /\ pos = 3
  /\ Len(books) = 2
  /\ Len(books[1].highlights) = 2
  /\ books[1].highlights[1] # books[1].highlights[2]
  /\ KeyOf(Highlight(highlights[2])) = books[2].key

----------------------------------------------------------------------------
\* A chunk is malformed: it has another number than 3 of lines that are not
\* empty after trimming, or its header holds no parenthesized group.
Malformed(chunk) ==
  \/ Len(TrimmedLines(chunk)) # 3
  \/ Groups(TrimmedLines(chunk)[1]) = {}

\* C8: once every chunk is parsed, the Library is the Library of the input
\* without its malformed chunks.
C8_MalformedDropped ==
  (pc # "start" /\ pos = Len(highlights))
  => books = parse_highlights(
               SelectSeq(highlights, LAMBDA c : ~Malformed(c)))

----------------------------------------------------------------------------
----------------------------------------------------------------------------
\* The lines of the records hs, formatted and concatenated.
RECURSIVE Lines(_)
Lines(hs) ==
  IF hs = <<>> THEN <<>>
  ELSE format_highlight(formatting, hs[1], add_date, add_page)
         \o Lines(Tail(hs))

\* C10: after write_highlights, every book has its own file, which holds the
\* book's header and the book's records, and no two books share a path.
C10_OneFilePerBook ==
  pc = "done"
  => /\ \A b \in 1..Len(books) :
          /\ FilePath(books[b].key) \in DOMAIN files
          /\ files[FilePath(books[b].key)]
               = FileHeader(books[b].key) \o Lines(books[b].highlights)
     /\ \A b, c \in 1..Len(books) :
          b # c => FilePath(books[b].key) # FilePath(books[c].key)

====
